---- MODULE Spec2Model ----
(***************************************************************************)
(* Transient-stability screening with RastrWin: the evaluators             *)
(* (simple_calculate, ems_calculate), the generator variable set           *)
(* (MultiVariable), the sweep orchestrator (MultiScenarioAnalyzer) and the  *)
(* worker/polling part of the front end (RastrAnalysisGUI).                 *)
(*                                                                         *)
(* Units.  Angles are whole degrees.  Timestamps are integers in units of   *)
(* 0.1 ms, so that the f"{t:.3f}" formatting of a timestamp is a real       *)
(* rounding (Fmt3).  Powers are integers in units of 0.5 MW, so that the    *)
(* true division (min+max)/2 of line 289 is exact.  Python lists are        *)
(* 1-based sequences here; a Python None argument is the empty sequence     *)
(* and a present argument x is <<x>>.  Wall-clock calc_time is not part of  *)
(* the state.                                                               *)
(***************************************************************************)
EXTENDS Integers, Sequences, FiniteSets, TLC

VARIABLES
    evIn,       \* arguments of one evaluator call (evaluator harness)
    evOut,      \* <<>> before the call, a one-element sequence holding the outcome after it
    engP,       \* engine-resident power column of table Generator: row -> value
    calls,      \* trace of the engine calls and progress callbacks made so far
    rastr,      \* MultiScenarioAnalyzer.rastr: "None" or the session object "Rastr"
    dyn,        \* MultiScenarioAnalyzer.dyn: "None" or "FWDynamic"
    run,        \* per caller of run_analysis: its position, arguments and locals
    queue,      \* RastrAnalysisGUI.progress_queue
    gui         \* RastrAnalysisGUI: widgets' variables, lists and pending timers

vars == <<evIn, evOut, engP, calls, rastr, dyn, run, queue, gui>>

-----------------------------------------------------------------------------
(* Bounds of the model *)

MaxGens == 2
MaxSamples == 3
MaxScenarios == 2
MaxWorkers == 2

(* Program constants *)

BaseTimeLimit == 1000
AngleLimit == 180

-----------------------------------------------------------------------------
(* Small helpers *)

Range(s) == {s[i] : i \in DOMAIN s}

Rows == 0 .. (MaxGens - 1)

Call(op, row, v) == [op |-> op, row |-> row, v |-> v]

\* The call invokes the dynamic simulation.
IsRun(e) == e.op \in {"Run", "RunEMSmode"}

\* f"{t:.3f}": a timestamp in 0.1 ms units printed with three decimals, i.e.
\* rounded to whole milliseconds.
Fmt3(t) == (t + 5) \div 10

Min2(a, b) == IF a < b THEN a ELSE b

-----------------------------------------------------------------------------
(* MultiVariable *)

\* Table Generator of the loaded network: the row of each generator number.
GenKeyList == <<"51804050", "51804051", "51804052", "51804053">>

\* SetSel(key); FindNextSel(-1): the first matching row, or -1 when none matches.
FindNextSel(key) ==
    IF \E i \in 1 .. MaxGens : GenKeyList[i] = key
    THEN (CHOOSE i \in 1 .. MaxGens : GenKeyList[i] = key) - 1
    ELSE -1

\* MultiVariable.__init__: one gen_info per descriptor, in order.
MultiVariable(generators_config) ==
    [generators |->
        [i \in DOMAIN generators_config |->
            [name |-> generators_config[i].name,
             row_id |-> FindNextSel(generators_config[i].key)]]]

MultiVariableTrace(generators_config) ==
    [i \in DOMAIN generators_config |->
        Call("FindNextSel", FindNextSel(generators_config[i].key), 0)]

\* An optional value: None, or a number x.
None == <<>>
Some(x) == <<x>>

\* for gen_info, value in zip(self.generators, values): if value is not None:
\* SetZ(row_id, value)  (lines 68-70): the writes made, in order.
RECURSIVE ZipWrites(_, _)
ZipWrites(gens, items) ==
    IF gens = <<>> \/ items = <<>> THEN <<>>
    ELSE (IF Head(items) # None
          THEN <<Call("SetZ", Head(gens).row_id, Head(items)[1])>>
          ELSE <<>>) \o ZipWrites(Tail(gens), Tail(items))

\* The engine's power column after a sequence of writes.  A write to the row
\* handle -1 reaches no row of the table.
RECURSIVE WriteAll(_, _)
WriteAll(writes, P) ==
    IF writes = <<>> THEN P
    ELSE WriteAll(Tail(writes),
                  IF Head(writes).row \in DOMAIN P
                  THEN [P EXCEPT ![Head(writes).row] = Head(writes).v]
                  ELSE P)

\* A list of numbers, as a list of optional values.
ListItems(values) == [i \in DOMAIN values |-> Some(values[i])]

\* apply with a list of numbers: zip(self.generators, values) writes the common
\* prefix, then one rgm("").
ApplyWrites(var, values) == ZipWrites(var.generators, ListItems(values))

\* An apply that commits after every write.
RECURSIVE CommitAfterEach(_)
CommitAfterEach(writes) ==
    IF writes = <<>> THEN <<>>
    ELSE <<Head(writes), Call("rgm", -1, 0)>> \o CommitAfterEach(Tail(writes))

ApplyTraceCommitEach(var, values) == CommitAfterEach(ApplyWrites(var, values))

ApplyTrace(var, values) == ApplyWrites(var, values) \o <<Call("rgm", -1, 0)>>

ApplyP(var, values, P) == WriteAll(ApplyWrites(var, values), P)

\* A scalar handed to the first generator only.
BroadcastToFirst(var, v) == <<v>>

\* Line 66: [values] * len(self.generators)
Broadcast(var, v) == [i \in 1 .. Len(var.generators) |-> v]

\* Lines 65-66: the argument of apply is a list of optional values
\* (is_list, items), or anything else (v), which stands for every generator.
ApplyItems(var, arg) == IF arg.is_list THEN arg.items ELSE Broadcast(var, arg.v)

\* MultiVariable.apply (lines 60-72) on any argument: the calls made and the
\* engine's power column afterwards.
apply(var, arg, P) ==
    LET writes == ZipWrites(var.generators, ApplyItems(var, arg))
    IN [trace |-> writes \o <<Call("rgm", -1, 0)>>, P |-> WriteAll(writes, P)]

KnownParams == {"delta", "voltage", "power_p", "power_q", "current"}

ParamColumn(kind) ==
    CASE kind = "delta" -> "Delta"
      [] kind = "voltage" -> "U"
      [] kind = "power_p" -> "P"
      [] kind = "power_q" -> "Q"
      [] kind = "current" -> "I"

\* The column read for the generators in reverse order.
ReadColumnReversed(var, col, eng, P) ==
    [i \in 1 .. Len(var.generators) |->
        IF col = "P" THEN P[var.generators[Len(var.generators) + 1 - i].row_id]
        ELSE eng.cols[col][var.generators[Len(var.generators) + 1 - i].row_id]]

\* [gen['table'].Cols(col).Z(gen['row_id']) for gen in self.generators]
ReadColumn(var, col, eng, P) ==
    [i \in 1 .. Len(var.generators) |->
        IF col = "P" THEN P[var.generators[i].row_id]
        ELSE eng.cols[col][var.generators[i].row_id]]

\* get_parameters: only the read of column I is guarded; a failing read of any
\* other requested column propagates.
get_parameters(var, param_types, eng, P) ==
    LET req == Range(param_types) \cap KnownParams
        raised == \E k \in req \ {"current"} : ParamColumn(k) \in eng.bad_cols
    IN [raised |-> raised,
        results |->
            IF raised THEN <<>>
            ELSE [k \in req |->
                    IF k = "current" /\ "I" \in eng.bad_cols
                    THEN [i \in 1 .. Len(var.generators) |-> "N/A"]
                    ELSE ReadColumn(var, ParamColumn(k), eng, P)]]

-----------------------------------------------------------------------------
(* simple_calculate *)

AllStable == [kind |-> "all_stable", gen |-> "", t |-> 0]
AngleExceeded(name, t) == [kind |-> "angle", gen |-> name, t |-> Fmt3(t)]
CauseText(code) == [kind |-> "cause", gen |-> "", t |-> code]
EngineMessage(m) == [kind |-> "message", gen |-> m, t |-> 0]
NoComment == [kind |-> "", gen |-> "", t |-> 0]

\* State of the scan: base_val is a local of simple_calculate, unbound until the
\* first sample with t < 0.1 is seen, and shared by all generators of the call.
ScanStart ==
    [bound |-> FALSE, base_val |-> 0, base_t |-> 0,
     SyncLossCause |-> 0, comment |-> NoComment, raised |-> FALSE, reads |-> <<>>]

RECURSIVE ScanSeries(_, _, _, _)
ScanSeries(name, data, i, st) ==
    IF i > Len(data) THEN st
    ELSE LET val == data[i].val
             t == data[i].t
             st1 == IF t < BaseTimeLimit
                    THEN [st EXCEPT !.bound = TRUE, !.base_val = val, !.base_t = t]
                    ELSE st
         IN IF ~st1.bound
            THEN [st1 EXCEPT !.raised = TRUE]
            ELSE IF (val > st1.base_val + AngleLimit) \/ (val < st1.base_val - AngleLimit)
                 THEN [st1 EXCEPT !.SyncLossCause = 1, !.comment = AngleExceeded(name, t)]
                 ELSE ScanSeries(name, data, i + 1, st1)

RECURSIVE ScanGens(_, _, _, _, _)
ScanGens(var, eng, ids, k, st) ==
    IF k > Len(ids) THEN st
    ELSE LET gen == var.generators[ids[k]]
             st0 == [st EXCEPT !.reads = Append(@, Call("GetChainedGraphSnapshot", gen.row_id, 0))]
             st1 == ScanSeries(gen.name, eng.series[gen.row_id], 1, st0)
         IN IF st1.raised \/ st1.SyncLossCause = 1
            THEN st1
            ELSE ScanGens(var, eng, ids, k + 1, st1)

Raised(trace, P) ==
    [raised |-> TRUE, stable |-> FALSE, comment |-> NoComment, parameters |-> <<>>,
     trace |-> trace, P |-> P]

Verdict(stable, comment, parameters, trace, P) ==
    [raised |-> FALSE, stable |-> stable, comment |-> comment, parameters |-> parameters,
     trace |-> trace, P |-> P]

ParamTrace(selected_params) ==
    IF selected_params = <<>> THEN <<>> ELSE <<Call("get_parameters", -1, 0)>>

\* Lines 125-127: apply the setpoints and invoke the dynamic run.
SimpleBeginTrace(var, powers) == ApplyTrace(var, powers) \o <<Call("Run", -1, 0)>>

\* RastrRetCodeString[ret_code]: the table lists two codes, and Python takes
\* the indices -2 and -1 from its end; any other index raises.
RetCodeListed(ret_code) == ret_code \in -2 .. 1

\* A verdict that also requires the engine's return code to be zero.
SimpleStableUnlessRetCode(scan, eng) == scan.SyncLossCause = 0 /\ eng.ret_code = 0

\* 'stable': (SyncLossCause == 0)
SimpleStable(scan, eng) == scan.SyncLossCause = 0

\* Lines 127-174, from the return of Run on: P1 and t1 are the engine's power
\* column and the calls made when the run was invoked.
simple_finish(var, gen_ids_to_check, selected_params, eng, P1, t1) ==
    LET ids == IF gen_ids_to_check = <<>>
               THEN [i \in 1 .. Len(var.generators) |-> i]
               ELSE gen_ids_to_check[1]
        scan == ScanGens(var, eng, ids, 1, ScanStart)
        comment == IF scan.SyncLossCause = 0 THEN AllStable ELSE scan.comment
        par == get_parameters(var, selected_params, eng, P1)
        t2 == t1 \o scan.reads \o ParamTrace(selected_params)
    IN IF eng.fault = "run" \/ ~RetCodeListed(eng.ret_code) THEN Raised(t1, P1)
       ELSE IF scan.raised THEN Raised(t1 \o scan.reads, P1)
       ELSE IF selected_params # <<>> /\ par.raised THEN Raised(t2, P1)
       ELSE Verdict(SimpleStable(scan, eng), comment,
                    IF selected_params # <<>> THEN par.results ELSE <<>>, t2, P1)

simple_calculate(var, powers, gen_ids_to_check, selected_params, eng, P) ==
    simple_finish(var, gen_ids_to_check, selected_params, eng,
                  ApplyP(var, powers, P), SimpleBeginTrace(var, powers))

-----------------------------------------------------------------------------
(* ems_calculate *)

\* A verdict taken from the engine's return code instead of its cause code.
EmsStableByRetCode(eng) == eng.ret_code = 0

\* 'stable': (dyn.SyncLossCause == 0)
EmsStable(eng) == eng.cause = 0

\* Lines 187-190: apply the setpoints and invoke the EMS run.
EmsBeginTrace(var, powers) == ApplyTrace(var, powers) \o <<Call("RunEMSmode", -1, 0)>>

\* Lines 190-211, from the return of RunEMSmode on.
ems_finish(var, selected_params, eng, P1, t1) ==
    LET comment == IF eng.message # "" THEN EngineMessage(eng.message)
                   ELSE CauseText(eng.cause)
        par == get_parameters(var, selected_params, eng, P1)
        t2 == t1 \o ParamTrace(selected_params)
    IN IF eng.fault = "run" \/ ~RetCodeListed(eng.ret_code) THEN Raised(t1, P1)
       ELSE IF selected_params # <<>> /\ par.raised THEN Raised(t2, P1)
       ELSE Verdict(EmsStable(eng), comment,
                    IF selected_params # <<>> THEN par.results ELSE <<>>, t2, P1)

ems_calculate(var, powers, selected_params, eng, P) ==
    ems_finish(var, selected_params, eng, ApplyP(var, powers, P),
               EmsBeginTrace(var, powers))

-----------------------------------------------------------------------------
(* Inputs of the evaluator harness *)

GenNameList == <<"Gen-1", "Gen-2", "Gen-3", "Gen-4">>

\* The MultiVariable built for the first n generators of the table: rows 0 .. n-1.
VarOf(n) ==
    MultiVariable([i \in 1 .. n |-> [key |-> GenKeyList[i], name |-> GenNameList[i]]])

\* 0 s, 0.05 s, 0.1 s and 2.3004 s
SampleTimes == {0, 500, 1000, 23004}
SampleAngles == {0, 1, 181}
Sample == [val : SampleAngles, t : SampleTimes]

\* A time series: samples in strictly increasing time order.
SeriesOfLen(n) ==
    {s \in [1 .. n -> Sample] : \A i \in 1 .. (n - 1) : s[i].t < s[i + 1].t}

AllSeries == UNION {SeriesOfLen(k) : k \in 0 .. MaxSamples}

SeriesUpTo(n) == {s \in AllSeries : Len(s) <= n}

\* One series per row 0 .. n-1, with at most `budget` samples in all.
RECURSIVE SeriesTuples(_, _)
SeriesTuples(n, budget) ==
    IF n = 0 THEN {<<>>}
    ELSE UNION {{Append(a, s) : a \in SeriesTuples(n - 1, budget - Len(s))} :
                    s \in SeriesUpTo(budget)}

\* The engine has no snapshot data for a row it was not asked to record, the
\* row handle -1 of an unresolved selector included.
SeriesByRow(tuple) ==
    [r \in Rows \cup {-1} |-> IF r >= 0 /\ r + 1 <= Len(tuple) THEN tuple[r + 1] ELSE <<>>]

\* What the engine holds in the other columns of table Generator.
ColumnData ==
    [c \in {"Delta", "U", "Q", "I"} |->
        [r \in Rows |-> CASE c = "Delta" -> 30 + r
                          [] c = "U" -> 500 + r
                          [] c = "Q" -> 20 + r
                          [] c = "I" -> 3 + r]]

Engine(ret_code, series, cause, time_reached, message, bad_cols, fault) ==
    [ret_code |-> ret_code, series |-> series, cause |-> cause,
     time_reached |-> time_reached, message |-> message,
     cols |-> ColumnData, bad_cols |-> bad_cols, fault |-> fault]

\* gen_ids_to_check: None, the last generator alone, or all in reverse order.
GenIdChoices(n) ==
    {<<>>, << <<n>> >>}
           \cup (IF n > 1 THEN {<< [i \in 1 .. n |-> n + 1 - i] >>} ELSE {})

ParamChoices ==
    {<<>>, <<"delta", "voltage">>, <<"current", "power_p">>, <<"power_q">>,
     <<"voltage", "current", "power_q", "delta", "power_p">>}
BadColChoices == {{}, {"I"}, {"U"}}

LowPowers(n) == [i \in 1 .. n |-> 160 + 40 * (i - 1)]

\* The arguments of one evaluator call and what the engine will answer.
EvalIn(func, n, tuple, ids, ret_code, cause, time_reached, message, params, bad_cols, fault) ==
    [func |-> func, n |-> n, tuple |-> tuple, gen_ids_to_check |-> ids,
     ret_code |-> ret_code, cause |-> cause, time_reached |-> time_reached,
     message |-> message, selected_params |-> params, bad_cols |-> bad_cols,
     fault |-> fault]

SimpleIn(n, tuple, ids, ret_code, params, bad_cols, fault) ==
    EvalIn("simple", n, tuple, ids, ret_code, 0, 0, "", params, bad_cols, fault)

EmsIn(n, cause, ret_code, time_reached, message, params, bad_cols, fault) ==
    EvalIn("ems", n, <<>>, <<>>, ret_code, cause, time_reached, message, params,
           bad_cols, fault)

EngineOf(in) ==
    Engine(in.ret_code, SeriesByRow(in.tuple), in.cause, in.time_reached, in.message,
           in.bad_cols, in.fault)

\* A return code that RastrRetCodeString does not list.
UnlistedRetCode == 2

ShortTuple(n) == [i \in 1 .. n |-> <<[val |-> 0, t |-> 0]>>]

InitP == [r \in Rows |-> 0]

-----------------------------------------------------------------------------
(* MultiScenarioAnalyzer.run_analysis *)

Workers == 1 .. MaxWorkers

ScenarioNameList == <<"a.scn", "b.scn", "c.scn", "d.scn">>
ScenarioNames == {ScenarioNameList[i] : i \in 1 .. MaxScenarios}

\* Scenario file lists: the distinct file names of a folder, in any order.
ScenarioLists ==
    {fs \in UNION {[1 .. n -> ScenarioNames] : n \in 0 .. MaxScenarios} :
        \A i, j \in DOMAIN fs : i # j => fs[i] # fs[j]}

\* The front end's generator list (add_generator_defaults), and a single
\* generator whose range has an odd sum.
DefaultGenerators ==
    <<[id |-> "51804050", name |-> "Gen-1", p_min |-> 80, p_max |-> 210],
      [id |-> "51804051", name |-> "Gen-2", p_min |-> 100, p_max |-> 250]>>

GeneratorChoices ==
    {DefaultGenerators, <<[id |-> "51804050", name |-> "Gen-1", p_min |-> 1, p_max |-> 2]>>}

\* A generator whose number is not in table Generator of the loaded network.
UnlistedGenerators == <<[id |-> "99999999", name |-> "Gen-X", p_min |-> 80, p_max |-> 210]>>

\* gui_main.run_analysis: the analyzer's generator descriptors and power ranges.
gen_config(generators) ==
    [i \in DOMAIN generators |-> [key |-> generators[i].id, name |-> generators[i].name]]

power_ranges_of(generators) ==
    [i \in DOMAIN generators |-> <<generators[i].p_min, generators[i].p_max>>]

\* Powers are held in units of 0.5 MW.
HalfMW(x) == 2 * x

\* Floor division (min+max)//2 instead of true division.
MidpointFloor(lo, hi) == 2 * ((lo + hi) \div 2)

\* (power_ranges[i][0] + power_ranges[i][1])/2, in units of 0.5 MW
Midpoint(lo, hi) == lo + hi

\* test_cases: minimums, maximums, midpoints
test_cases(power_ranges) ==
    << [i \in DOMAIN power_ranges |-> HalfMW(power_ranges[i][1])],
       [i \in DOMAIN power_ranges |-> HalfMW(power_ranges[i][2])],
       [i \in DOMAIN power_ranges |-> Midpoint(power_ranges[i][1], power_ranges[i][2])] >>

\* An event of the trace: an engine call or a progress callback, with the
\* caller and the scenario it was made for.  A percentage is the exact
\* fraction num/den.
Event(op, row, v, w, scen, num, den) ==
    [op |-> op, row |-> row, v |-> v, w |-> w, scen |-> scen, num |-> num, den |-> den]

Tagged(trace, w, scen) ==
    [i \in DOMAIN trace |-> Event(trace[i].op, trace[i].row, trace[i].v, w, scen, 0, 1)]

\* progress_callback(message, percent): msg is "processing", "completed" or "finished".
ProgressEvent(w, msg, scen, num, den) == Event("progress", -1, 0, w, scen, num, den) @@ [msg |-> msg]

\* The share of the scenarios still to come, as a percentage.
PercentOfRemaining(completed, total) == [num |-> (total - completed) * 100, den |-> total]

\* The fraction completed / total_scenarios, not scaled to a percentage.
PercentNotScaled(completed, total) == [num |-> completed, den |-> total]

\* (completed / total_scenarios) * 100
Percent(completed, total) == [num |-> completed * 100, den |-> total]

IdleRun ==
    [pc |-> "idle", scenario_files |-> <<>>, generators_config |-> <<>>,
     power_ranges |-> <<>>, calculate_func |-> "simple", selected_params |-> <<>>,
     progress_callback |-> "none", k |-> 0, completed |-> 0, results |-> <<>>,
     scenario_results |-> <<>>, c |-> 0, var |-> [generators |-> <<>>]]

\* A mapping that puts a new key in front of the older ones.
DictSetFront(d, key, value) ==
    IF \E i \in DOMAIN d : d[i].key = key
    THEN [i \in DOMAIN d |-> IF d[i].key = key THEN [key |-> key, value |-> value] ELSE d[i]]
    ELSE <<[key |-> key, value |-> value]>> \o d

\* results[key] = value on an insertion-ordered dict, held as a sequence of
\* (key, value) pairs.
DictSet(d, key, value) ==
    IF \E i \in DOMAIN d : d[i].key = key
    THEN [i \in DOMAIN d |-> IF d[i].key = key THEN [key |-> key, value |-> value] ELSE d[i]]
    ELSE Append(d, [key |-> key, value |-> value])

DictKeys(d) == [i \in DOMAIN d |-> d[i].key]

\* What a progress callback does with (message, percent): nothing is delivered
\* without a callback; the front end's update_progress puts it on the queue.
Deliver(cb, tr, ev) == IF cb # "none" /\ tr THEN <<ev>> ELSE <<>>

Enqueue(cb, ev) ==
    IF cb = "queue"
    THEN <<[type |-> "progress", msg |-> ev.msg, scen |-> ev.scen,
            num |-> ev.num, den |-> ev.den, data |-> <<>>]>>
    ELSE <<>>

Log(tr, trace) == IF tr THEN trace ELSE <<>>

\* A call of run_analysis by caller w (lines 224-238).
StartRun(w, files, generators, func, params, cb) ==
    /\ run[w].pc = "idle"
    /\ run' = [run EXCEPT ![w] =
                 [IdleRun EXCEPT !.pc = "connect", !.scenario_files = files,
                                 !.generators_config = gen_config(generators),
                                 !.power_ranges = power_ranges_of(generators),
                                 !.calculate_func = func, !.selected_params = params,
                                 !.progress_callback = cb]]
    /\ calls' = <<>>
    /\ UNCHANGED <<gui, evIn, evOut, engP, rastr, dyn, queue>>

\* A connection failure that is swallowed: the run goes on to the scenarios.
ConnectFailureIgnored == "scenario"

\* Line 246: a connection failure is re-raised out of run_analysis.
ConnectFailurePc == "raised"

\* A run that connects again whatever the analyzer already holds.
SessionAlwaysMissing == TRUE

\* Line 240: `if self.rastr is None`.
SessionMissing == rastr = "None"

\* Lines 240-250: connect if not yet connected.  outcome is what the COM layer
\* does: "ok", "dispatch_fails" or "fwdynamic_fails".
Connect(w, outcome, tr) ==
    /\ run[w].pc = "connect"
    /\ IF ~SessionMissing
       THEN /\ outcome = "ok"
            /\ run' = [run EXCEPT ![w].pc = "scenario", ![w].k = 1]
            /\ UNCHANGED <<rastr, dyn, calls>>
       ELSE CASE outcome = "ok" ->
                 /\ rastr' = "Rastr"
                 /\ dyn' = "FWDynamic"
                 /\ run' = [run EXCEPT ![w].pc = "scenario", ![w].k = 1]
                 /\ calls' = calls \o Log(tr, <<Event("Dispatch", -1, 0, w, "", 0, 1),
                                                Event("FWDynamic", -1, 0, w, "", 0, 1)>>)
              [] outcome = "dispatch_fails" ->
                 /\ run' = [run EXCEPT ![w].pc = ConnectFailurePc, ![w].k = 0]
                 /\ calls' = calls \o Log(tr, <<Event("Dispatch", -1, 0, w, "", 0, 1)>>)
                 /\ UNCHANGED <<rastr, dyn>>
              [] outcome = "fwdynamic_fails" ->
                 /\ rastr' = "Rastr"
                 /\ run' = [run EXCEPT ![w].pc = ConnectFailurePc, ![w].k = 0]
                 /\ calls' = calls \o Log(tr, <<Event("Dispatch", -1, 0, w, "", 0, 1),
                                                Event("FWDynamic", -1, 0, w, "", 0, 1)>>)
                 /\ UNCHANGED dyn
    /\ UNCHANGED <<gui, evIn, evOut, engP, queue>>

\* The scenario file loaded before the network file.
LoadOrderScenarioFirst == <<2, 1, 3>>

\* Lines 265-267: the files loaded, in order: 1 the network file (template
\* динамика.rst), 2 the scenario file (сценарий.scn), 3 the automation file
\* (автоматика.dfw).
LoadOrder == <<1, 2, 3>>

\* The first n loads of an iteration.
LoadTrace(n) == [i \in 1 .. n |-> Call("Load", -1, LoadOrder[i])]

\* Lines 268-270: the i-th Load raised; the error is printed.
LoadErrorTrace(i) == LoadTrace(i) \o <<Call("LoadError", -1, i)>>

\* Lines 252-290: the head of one loop iteration: the 'processing' callback,
\* the three loads (failAt = 0: all succeed; failAt = i: the i-th raises and
\* the iteration is abandoned by `continue`), then the MultiVariable, the
\* snapshot setting and the test vectors.
BeginScenario(w, failAt, tr) ==
    LET r == run[w]
        file == r.scenario_files[r.k]
        ev == ProgressEvent(w, "processing", file,
                            Percent(r.completed, Len(r.scenario_files)).num,
                            Percent(r.completed, Len(r.scenario_files)).den)
    IN /\ r.pc = "scenario"
       /\ r.k <= Len(r.scenario_files)
       /\ queue' = queue \o Enqueue(r.progress_callback, ev)
       /\ IF failAt # 0
          THEN /\ run' = [run EXCEPT ![w].k = r.k + 1]
               /\ calls' = calls \o Deliver(r.progress_callback, tr, ev)
                                 \o Log(tr, Tagged(LoadErrorTrace(failAt), w, file))
          ELSE /\ run' = [run EXCEPT ![w].pc = "eval", ![w].c = 1,
                                     ![w].var = MultiVariable(r.generators_config),
                                     ![w].scenario_results = <<>>]
               /\ calls' = calls \o Deliver(r.progress_callback, tr, ev)
                                 \o Log(tr, Tagged(LoadTrace(3)
                                                   \o MultiVariableTrace(r.generators_config)
                                                   \o <<Call("SnapMaxCount", 0, 1)>>, w, file))
       /\ UNCHANGED <<gui, evIn, evOut, engP, rastr, dyn>>

\* Lines 292-296 up to the engine's run: apply the setpoints of test vector c
\* and invoke the run; the evaluation is now in flight.
EvalBegin(w, tr) ==
    LET r == run[w]
        file == r.scenario_files[r.k]
        powers == test_cases(r.power_ranges)[r.c]
    IN /\ r.pc = "eval"
       /\ engP' = ApplyP(r.var, powers, engP)
       /\ calls' = calls \o Log(tr, Tagged(IF r.calculate_func = "ems"
                                           THEN EmsBeginTrace(r.var, powers)
                                           ELSE SimpleBeginTrace(r.var, powers), w, file))
       /\ run' = [run EXCEPT ![w].pc = "running"]
       /\ UNCHANGED <<gui, evIn, evOut, rastr, dyn, queue>>

\* The sweep declared complete one test vector early.
LastCaseEarly(r) == r.c = Len(test_cases(r.power_ranges)) - 1

\* for powers in test_cases: the vector just evaluated is the last one.
LastCase(r) == r.c = Len(test_cases(r.power_ranges))

ResultEntry(powers, result) ==
    [powers |-> powers, stable |-> result.stable, comment |-> result.comment,
     parameters |-> result.parameters]

\* Lines 292-310 from the return of the engine's run: the verdict is appended;
\* after the third vector the scenario's list is stored, completed is
\* incremented and the 'completed' callback is made.  An exception of the
\* evaluator leaves run_analysis.
EvalEnd(w, eng, tr) ==
    LET r == run[w]
        file == r.scenario_files[r.k]
        powers == test_cases(r.power_ranges)[r.c]
        result == IF r.calculate_func = "ems"
                  THEN ems_finish(r.var, r.selected_params, eng, engP, <<>>)
                  ELSE simple_finish(r.var, <<>>, r.selected_params, eng, engP, <<>>)
        list == Append(r.scenario_results, ResultEntry(powers, result))
        ev == ProgressEvent(w, "completed", file,
                            Percent(r.completed + 1, Len(r.scenario_files)).num,
                            Percent(r.completed + 1, Len(r.scenario_files)).den)
    IN /\ r.pc = "running"
       /\ IF result.raised
          THEN /\ run' = [run EXCEPT ![w].pc = "raised"]
               /\ calls' = calls \o Log(tr, Tagged(result.trace, w, file))
               /\ UNCHANGED queue
          ELSE IF ~LastCase(r)
          THEN /\ run' = [run EXCEPT ![w].pc = "eval", ![w].c = r.c + 1,
                                     ![w].scenario_results = list]
               /\ calls' = calls \o Log(tr, Tagged(result.trace, w, file))
               /\ UNCHANGED queue
          ELSE /\ run' = [run EXCEPT ![w].pc = "scenario", ![w].k = r.k + 1,
                                     ![w].scenario_results = list,
                                     ![w].results = DictSet(r.results, file, list),
                                     ![w].completed = r.completed + 1]
               /\ calls' = calls \o Log(tr, Tagged(result.trace, w, file))
                                 \o Deliver(r.progress_callback, tr, ev)
               /\ queue' = queue \o Enqueue(r.progress_callback, ev)
       /\ UNCHANGED <<gui, evIn, evOut, engP, rastr, dyn>>

\* Lines 312-315: after the loop, the final callback and the return of results.
FinishRun(w, tr) ==
    LET r == run[w]
        ev == ProgressEvent(w, "finished", "", 100, 1)
    IN /\ r.pc = "scenario"
       /\ r.k > Len(r.scenario_files)
       /\ run' = [run EXCEPT ![w].pc = "returned"]
       /\ calls' = calls \o Deliver(r.progress_callback, tr, ev)
       /\ queue' = queue \o Enqueue(r.progress_callback, ev)
       /\ UNCHANGED <<gui, evIn, evOut, engP, rastr, dyn>>

\* The caller has taken the returned report, or the exception: the frame of
\* run_analysis and its locals are gone.
Return(w) ==
    /\ run[w].pc \in {"returned", "raised"}
    /\ run' = [run EXCEPT ![w] = IdleRun]
    /\ calls' = <<>>
    /\ UNCHANGED <<gui, evIn, evOut, engP, rastr, dyn, queue>>

\* What the engine answers to the evaluation of test vector c of a sweep over n
\* generators: every generator stays within bounds; at the maximum setpoints
\* the last generator may diverge at 2.3004 s (EMS mode: cause 2); or the run
\* raises.
StableSeries == <<[val |-> 0, t |-> 0], [val |-> 1, t |-> 23004]>>
DivergingSeries == <<[val |-> 0, t |-> 0], [val |-> 181, t |-> 23004]>>

SweepEngines(func, n, c) ==
    IF func = "ems"
    THEN {Engine(0, SeriesByRow(<<>>), 0, 23004, "", {}, "none"),
          Engine(1, SeriesByRow(<<>>), 0, 0, "", {}, "run")}
         \cup (IF c = 2 THEN {Engine(1, SeriesByRow(<<>>), 2, 500, "", {}, "none")} ELSE {})
    ELSE {Engine(0, SeriesByRow([i \in 1 .. n |-> StableSeries]), 0, 0, "", {}, "none"),
          Engine(1, SeriesByRow(<<>>), 0, 0, "", {}, "run")}
         \cup (IF c = 2
               THEN {Engine(1, SeriesByRow([i \in 1 .. n |->
                                    IF i = n THEN DivergingSeries ELSE StableSeries]),
                            0, 0, "", {}, "none")}
               ELSE {})

\* The combinations of strategy, monitored parameters and callback of a run.
RunOptions ==
    {<<"simple", <<>>, "log">>, <<"ems", <<"delta", "power_p">>, "log">>,
     <<"simple", <<"delta", "power_p">>, "none">>}

\* RastrAnalysisGUI.__init__: the widgets' variables after construction.  The
\* status texts are "ready" (Готов к работе), "starting" (Запуск анализа...),
\* "stopping" (Остановка анализа...), "finished" (Анализ завершен), "error"
\* (Ошибка: ...) and the progress messages; generators_tree holds the rows of
\* the table widget, top to bottom, each with its values (id, name, p_min,
\* p_max); timers counts the pending root.after(100, check_progress) calls.
NewGui ==
    [generators |-> DefaultGenerators,
     generators_tree |-> DefaultGenerators,
     selected_parameters |-> <<"delta", "power_p">>,
     scenario_folder |-> "",
     scenarios_listbox |-> <<>>,
     calculation_method |-> "simple",
     progress_var |-> [num |-> 0, den |-> 1],
     status_var |-> [text |-> "ready", scen |-> ""],
     current_results |-> <<>>,
     timers |-> 0]

NoEvalIn == EvalIn("none", 0, <<>>, <<>>, 0, 0, 0, "", <<>>, {}, "none")

Init ==
    /\ evIn = NoEvalIn
    /\ evOut = <<>>
    /\ engP = InitP
    /\ calls = <<>>
    /\ rastr = "None"
    /\ dyn = "None"
    /\ run = [w \in Workers |-> IdleRun]
    /\ queue = <<>>
    /\ gui = NewGui

\* One caller at a time uses the analyzer: caller 1, run after run.
CallRunAnalysis ==
    \/ \E files \in ScenarioLists, generators \in GeneratorChoices, o \in RunOptions :
           StartRun(1, files, generators, o[1], o[2], o[3])
    \/ \E files \in ScenarioLists : StartRun(1, files, UnlistedGenerators, "simple", <<>>, "log")

ConnectStep == \E outcome \in {"ok", "dispatch_fails", "fwdynamic_fails"} : Connect(1, outcome, TRUE)

BeginScenarioStep == \E failAt \in 0 .. 3 : BeginScenario(1, failAt, TRUE)

EvalBeginStep == EvalBegin(1, TRUE)

EvalEndStep ==
    \E eng \in SweepEngines(run[1].calculate_func, Len(run[1].generators_config), run[1].c) :
        EvalEnd(1, eng, TRUE)

FinishRunStep == FinishRun(1, TRUE)

ReturnStep == Return(1)

Next ==
    \/ CallRunAnalysis
    \/ ReturnStep
    \/ ConnectStep
    \/ BeginScenarioStep
    \/ EvalBeginStep
    \/ EvalEndStep
    \/ FinishRunStep

Spec == Init /\ [][Next]_vars

-----------------------------------------------------------------------------
(* RastrAnalysisGUI: the main loop's handlers and the analysis threads *)

\* The folder the user picks: its .scn files, sorted by scan_scenarios.
FolderChoices == {<<"a.scn">>}

\* select_scenario_folder / scan_scenarios (lines 280-307).
SelectScenarioFolder ==
    \E files \in FolderChoices :
        /\ gui' = [gui EXCEPT !.scenario_folder = "folder", !.scenarios_listbox = files]
        /\ UNCHANGED <<evIn, evOut, engP, calls, rastr, dyn, run, queue>>

\* threading.Thread(...): a new thread object, never started twice; the
\* threads are numbered in the order of their start.
FreeSlot(w) == run[w].pc = "idle" /\ \A v \in Workers : v < w => run[v].pc # "idle"

\* start_analysis (lines 309-354).  With an input missing it shows an error
\* box and returns; otherwise it resets the progress display, starts a thread
\* on run_analysis(scenarios, selected_params) and schedules check_progress.
\* It checks its inputs only: nothing in it looks at a thread that is still
\* running, and the button is never disabled.
StartAnalysis ==
    /\ gui.generators # <<>>
    /\ gui.scenario_folder # ""
    /\ gui.scenarios_listbox # <<>>
    /\ gui.selected_parameters # <<>>
    /\ \E w \in Workers :
        /\ FreeSlot(w)
        /\ run' = [run EXCEPT ![w] = [IdleRun EXCEPT !.pc = "spawned",
                                         !.scenario_files = gui.scenarios_listbox,
                                         !.selected_params = gui.selected_parameters]]
    /\ gui' = [gui EXCEPT !.progress_var = [num |-> 0, den |-> 1],
                          !.status_var = [text |-> "starting", scen |-> ""],
                          !.timers = @ + 1]
    /\ UNCHANGED <<evIn, evOut, engP, calls, rastr, dyn, queue>>

\* RastrAnalysisGUI.run_analysis, lines 358-380: the thread builds the
\* analyzer's arguments from the front end's current state and calls
\* analyzer.run_analysis with update_progress as the callback.
ThreadBegin(w) ==
    /\ run[w].pc = "spawned"
    /\ run' = [run EXCEPT ![w].pc = "connect",
                          ![w].generators_config = gen_config(gui.generators),
                          ![w].power_ranges = power_ranges_of(gui.generators),
                          ![w].calculate_func = gui.calculation_method,
                          ![w].progress_callback = "queue"]
    /\ UNCHANGED <<evIn, evOut, engP, calls, rastr, dyn, queue, gui>>

\* A worker that reports 'completed' whether run_analysis returned or raised.
WorkerMessageAlwaysCompleted(r) ==
    [type |-> "completed", msg |-> "", scen |-> "", num |-> 100, den |-> 1,
     data |-> r.results]

\* Lines 384 and 387: the message the worker puts last.
WorkerMessage(r) ==
    IF r.pc = "returned"
    THEN [type |-> "completed", msg |-> "", scen |-> "", num |-> 100, den |-> 1,
          data |-> r.results]
    ELSE [type |-> "error", msg |-> "", scen |-> "", num |-> 0, den |-> 1, data |-> <<>>]

\* Lines 383-387: the thread puts ("completed", results), or ("error", ...)
\* when run_analysis raised, and ends.
ThreadEnd(w) ==
    /\ run[w].pc \in {"returned", "raised"}
    /\ queue' = Append(queue, WorkerMessage(run[w]))
    /\ run' = [run EXCEPT ![w] = [IdleRun EXCEPT !.pc = "exited"]]
    /\ UNCHANGED <<evIn, evOut, engP, calls, rastr, dyn, gui>>

\* display_results (lines 421-446): the report is kept and rendered.
display_results(g, results) == [g EXCEPT !.current_results = results]

\* One message of the queue handled by check_progress (lines 399-412).
HandleMessage(g, m) ==
    CASE m.type = "progress" ->
            [g EXCEPT !.status_var = [text |-> m.msg, scen |-> m.scen],
                      !.progress_var = [num |-> m.num, den |-> m.den]]
      [] m.type = "completed" ->
            display_results([g EXCEPT !.status_var = [text |-> "finished", scen |-> ""],
                                      !.progress_var = [num |-> 100, den |-> 1]], m.data)
      [] m.type = "error" ->
            [g EXCEPT !.status_var = [text |-> "error", scen |-> ""]]

\* while True: get_nowait() ... until queue.Empty (lines 395-415).
RECURSIVE Drain(_, _)
Drain(g, q) == IF q = <<>> THEN g ELSE Drain(HandleMessage(g, Head(q)), Tail(q))

\* check_progress (lines 393-419), run by a pending timer: it empties the
\* queue and schedules itself again unless the status text is "finished" or
\* "ready".
CheckProgress ==
    /\ gui.timers > 0
    /\ LET g == Drain(gui, queue)
       IN gui' = [g EXCEPT !.timers = IF g.status_var.text \notin {"finished", "ready"}
                                       THEN @ ELSE @ - 1]
    /\ queue' = <<>>
    /\ UNCHANGED <<evIn, evOut, engP, calls, rastr, dyn, run>>

\* A stop that kills the analysis threads and throws away what they collected.
StopAnalysisAborting ==
    /\ gui' = [gui EXCEPT !.status_var = [text |-> "stopping", scen |-> ""],
                          !.current_results = <<>>]
    /\ run' = [w \in Workers |->
                 IF run[w].pc \in {"idle", "exited"} THEN run[w]
                 ELSE [IdleRun EXCEPT !.pc = "exited"]]
    /\ UNCHANGED <<evIn, evOut, engP, calls, rastr, dyn, queue>>

\* stop_analysis (lines 448-451): it sets the status text, nothing else.
StopAnalysis ==
    /\ gui' = [gui EXCEPT !.status_var = [text |-> "stopping", scen |-> ""]]
    /\ UNCHANGED <<evIn, evOut, engP, calls, rastr, dyn, run, queue>>

ThreadBeginStep == \E w \in Workers : ThreadBegin(w)

ThreadConnect == \E w \in Workers, outcome \in {"ok", "dispatch_fails", "fwdynamic_fails"} :
                     Connect(w, outcome, FALSE)

ThreadBeginScenario == \E w \in Workers, failAt \in {0, 1} : BeginScenario(w, failAt, FALSE)

ThreadEvalBegin == \E w \in Workers : EvalBegin(w, FALSE)

\* What the engine answers to a thread's evaluation: every generator stays
\* within bounds, or the run of the first test vector raises.
ThreadEngines(func, n, c) ==
    {eng \in SweepEngines(func, n, c) : eng.ret_code = 0 \/ (eng.fault = "run" /\ c = 1)}

ThreadEvalEnd ==
    \E w \in Workers :
        \E eng \in ThreadEngines(run[w].calculate_func, Len(run[w].generators_config), run[w].c) :
            EvalEnd(w, eng, FALSE)

ThreadFinishRun == \E w \in Workers : FinishRun(w, FALSE)

ThreadEndStep == \E w \in Workers : ThreadEnd(w)

NextGui ==
    \/ SelectScenarioFolder
    \/ StartAnalysis
    \/ StopAnalysis
    \/ CheckProgress
    \/ ThreadBeginStep
    \/ ThreadConnect
    \/ ThreadBeginScenario
    \/ ThreadEvalBegin
    \/ ThreadEvalEnd
    \/ ThreadFinishRun
    \/ ThreadEndStep

SpecGui == Init /\ [][NextGui]_vars

-----------------------------------------------------------------------------
(* One worker thread of the front end, alone, with its calls traced *)

\* RastrAnalysisGUI.run_analysis (lines 356-381) started on the files of a
\* folder: the first run of a fresh analyzer, with update_progress as callback.
WorkerStart ==
    \E files \in ScenarioLists \ {<<>>}, generators \in GeneratorChoices,
       func \in {"simple", "ems"} :
        StartRun(1, files, generators, func, <<"delta", "power_p">>, "queue")

WorkerEnd == ThreadEnd(1)

NextWorker ==
    \/ WorkerStart
    \/ ConnectStep
    \/ BeginScenarioStep
    \/ EvalBeginStep
    \/ EvalEndStep
    \/ FinishRunStep
    \/ WorkerEnd

SpecWorker == Init /\ [][NextWorker]_vars

-----------------------------------------------------------------------------
(* RastrAnalysisGUI: editing the generator list *)

\* float('nan'): the one float that is neither <, = nor > any float.  Floats
\* are whole numbers here, with this value set apart for it.
NaN == -999999

\* What the user types into the power fields, and float() of it: a number, NaN,
\* or a ValueError.
PowerTexts == {"80", "210", "nan", "abc"}

float(text) ==
    CASE text = "80" -> [ok |-> TRUE, v |-> 80]
      [] text = "210" -> [ok |-> TRUE, v |-> 210]
      [] text = "nan" -> [ok |-> TRUE, v |-> NaN]
      [] OTHER -> [ok |-> FALSE, v |-> 0]

\* a >= b and a < b on floats: every comparison with NaN is false.
FloatGE(a, b) == a # NaN /\ b # NaN /\ a >= b
FloatLT(a, b) == a # NaN /\ b # NaN /\ a < b

\* Line 241: `if p_min >= p_max`.
RangeRejected(p_min, p_max) == FloatGE(p_min, p_max)

\* The id field after strip(): empty, the number of a listed generator, or a
\* new one.
IdTexts == {"", "51804050", "51804052"}

\* name_var.get().strip() or f"Ген-{gen_id}"
NameOf(name_text, gen_id) == IF name_text # "" THEN name_text ELSE "Gen-" \o gen_id

\* save_generator (lines 229-256): on a ValueError, an empty id or a rejected
\* range an error box is shown and nothing changes; otherwise a row is
\* appended to the table and the generator to the list.
save_generator(g, id_text, name_text, p_min_text, p_max_text) ==
    LET p_min == float(p_min_text)
        p_max == float(p_max_text)
        gen == [id |-> id_text, name |-> NameOf(name_text, id_text),
                p_min |-> p_min.v, p_max |-> p_max.v]
    IN IF ~p_min.ok \/ ~p_max.ok THEN g
       ELSE IF id_text = "" THEN g
       ELSE IF RangeRejected(p_min.v, p_max.v) THEN g
       ELSE [g EXCEPT !.generators_tree = Append(@, gen), !.generators = Append(@, gen)]

\* add_generator (lines 204-258): the dialog, then its 'add' button.
AddGenerator ==
    \E id_text \in IdTexts, p_min_text \in PowerTexts, p_max_text \in PowerTexts :
        /\ Len(gui.generators_tree) <= MaxGens
        /\ gui' = save_generator(gui, id_text, "", p_min_text, p_max_text)
        /\ UNCHANGED <<evIn, evOut, engP, calls, rastr, dyn, run, queue>>

\* generators_tree.delete(item) for the rows at positions sel.
RECURSIVE DeleteRows(_, _, _)
DeleteRows(rows, sel, p) ==
    IF rows = <<>> THEN <<>>
    ELSE IF p \in sel THEN DeleteRows(Tail(rows), sel, p + 1)
    ELSE <<Head(rows)>> \o DeleteRows(Tail(rows), sel, p + 1)

\* remove_generator (lines 260-273) with the rows at positions sel selected:
\* each selected row leaves the table, and the list keeps the generators whose
\* id differs from the id of every selected row.
remove_generator(g, sel) ==
    LET ids == {g.generators_tree[p].id : p \in sel}
        Kept(x) == x.id \notin ids
    IN [g EXCEPT !.generators_tree = DeleteRows(@, sel, 1),
                 !.generators = SelectSeq(@, Kept)]

RemoveGenerator ==
    \E sel \in SUBSET DOMAIN gui.generators_tree :
        /\ sel # {}
        /\ gui' = remove_generator(gui, sel)
        /\ UNCHANGED <<evIn, evOut, engP, calls, rastr, dyn, run, queue>>

\* clear_generators (lines 275-278).
ClearGenerators ==
    /\ gui' = [gui EXCEPT !.generators_tree = <<>>, !.generators = <<>>]
    /\ UNCHANGED <<evIn, evOut, engP, calls, rastr, dyn, run, queue>>

NextConfig == AddGenerator \/ RemoveGenerator \/ ClearGenerators

SpecConfig == Init /\ [][NextConfig]_vars

-----------------------------------------------------------------------------
(* The apply harness: one call of MultiVariable.apply *)

\* What a caller may put in one place of the vector.
ApplyEntries == {None, Some(160), Some(200)}

\* The arguments of apply for n generators: every list of up to n + 1 entries,
\* and every single value that is not a list.
ApplyArgs(n) ==
    {[is_list |-> TRUE, items |-> items, v |-> None] :
        items \in UNION {[1 .. k -> ApplyEntries] : k \in 0 .. (n + 1)}}
    \cup {[is_list |-> FALSE, items |-> <<>>, v |-> v] : v \in ApplyEntries}

\* The setpoints the engine holds before the call.
SetpointsBefore == {[r \in Rows |-> 100 + r], [r \in Rows |-> 200 - r]}

InitApply ==
    /\ \E n \in 1 .. MaxGens, P \in SetpointsBefore :
           \E arg \in ApplyArgs(n) :
               /\ evIn = [func |-> "apply", n |-> n, arg |-> arg, P |-> P]
               /\ engP = P
    /\ evOut = <<>>
    /\ calls = <<>>
    /\ rastr = "Rastr"
    /\ dyn = "FWDynamic"
    /\ run = [w \in Workers |-> IdleRun]
    /\ queue = <<>>
    /\ gui = NewGui

ApplyCall ==
    /\ evOut = <<>>
    /\ evIn.func = "apply"
    /\ LET r == apply(VarOf(evIn.n), evIn.arg, engP)
       IN /\ engP' = r.P
          /\ calls' = calls \o r.trace
    /\ evOut' = <<[raised |-> FALSE]>>
    /\ UNCHANGED <<gui, evIn, rastr, dyn, run, queue>>

NextApply == ApplyCall

SpecApply == InitApply /\ [][NextApply]_vars

-----------------------------------------------------------------------------
(* The evaluator harness: one call of simple_calculate or ems_calculate *)

\* simple_calculate on every series within the sample budget, without
\* monitoring; monitoring and engine faults on one short series; ems_calculate
\* on every cause code.
InitEvalIn ==
    \E n \in 1 .. MaxGens :
        \/ \E tuple \in SeriesTuples(n, MaxSamples), ids \in GenIdChoices(n) :
               evIn = SimpleIn(n, tuple, ids, 0, <<>>, {}, "none")
        \/ \E tuple \in SeriesTuples(n, MaxSamples - 1) :
               evIn = SimpleIn(n, tuple, <<>>, 1, <<>>, {}, "none")
        \/ evIn = SimpleIn(n, ShortTuple(n), <<>>, UnlistedRetCode, <<>>, {}, "none")
        \/ \E params \in ParamChoices, bad \in BadColChoices, fault \in {"none", "run"} :
               evIn = SimpleIn(n, ShortTuple(n), <<>>, 0, params, bad, fault)
        \/ \E cause \in 0 .. 3, rc \in {0, 1}, tr \in {0, 23004},
              msg \in {"", "engine message"}, params \in ParamChoices,
              bad \in BadColChoices, fault \in {"none", "run"} :
               evIn = EmsIn(n, cause, rc, tr, msg, params, bad, fault)

InitEval ==
    /\ InitEvalIn
    /\ evOut = <<>>
    /\ engP = InitP
    /\ calls = <<>>
    /\ rastr = "Rastr"
    /\ dyn = "FWDynamic"
    /\ run = [w \in Workers |-> IdleRun]
    /\ queue = <<>>
    /\ gui = NewGui

Returned(r) ==
    [raised |-> r.raised, stable |-> r.stable, comment |-> r.comment,
     parameters |-> r.parameters]

SimpleCalculateCall ==
    /\ evOut = <<>>
    /\ evIn.func = "simple"
    /\ LET r == simple_calculate(VarOf(evIn.n), LowPowers(evIn.n), evIn.gen_ids_to_check,
                                 evIn.selected_params, EngineOf(evIn), engP)
       IN /\ evOut' = <<Returned(r)>>
          /\ engP' = r.P
          /\ calls' = calls \o r.trace
    /\ UNCHANGED <<gui, evIn, rastr, dyn, run, queue>>

EmsCalculateCall ==
    /\ evOut = <<>>
    /\ evIn.func = "ems"
    /\ LET r == ems_calculate(VarOf(evIn.n), LowPowers(evIn.n), evIn.selected_params,
                              EngineOf(evIn), engP)
       IN /\ evOut' = <<Returned(r)>>
          /\ engP' = r.P
          /\ calls' = calls \o r.trace
    /\ UNCHANGED <<gui, evIn, rastr, dyn, run, queue>>

NextEval == SimpleCalculateCall \/ EmsCalculateCall

SpecEval == InitEval /\ [][NextEval]_vars

-----------------------------------------------------------------------------
(* Properties of the evaluators (checked under SpecEval) *)

EvDone(func) == evOut # <<>> /\ evIn.func = func

\* The generators a call of simple_calculate tests, in checking order.
TestedIds(in) ==
    IF in.gen_ids_to_check = <<>> THEN [i \in 1 .. in.n |-> i]
    ELSE in.gen_ids_to_check[1]

\* The baseline of a series as section 4.2 step 3b defines it: the value of the
\* sample with the smallest timestamp among the samples with timestamp < 0.1.
HasBaseline(data) == \E i \in DOMAIN data : data[i].t < BaseTimeLimit

BaselineOf(data) ==
    LET i == CHOOSE j \in DOMAIN data :
                 /\ data[j].t < BaseTimeLimit
                 /\ \A k \in DOMAIN data : data[k].t < BaseTimeLimit => data[j].t <= data[k].t
    IN data[i].val

Diverges(data, i) ==
    \/ data[i].val > BaselineOf(data) + AngleLimit
    \/ data[i].val < BaselineOf(data) - AngleLimit

FirstDivergence(data) ==
    CHOOSE i \in DOMAIN data : Diverges(data, i) /\ \A j \in 1 .. (i - 1) : ~Diverges(data, j)

AllTestedHaveBaseline(in) ==
    \A k \in DOMAIN TestedIds(in) : HasBaseline(in.tuple[TestedIds(in)[k]])

\* C3: when no sample of any tested generator lies outside baseline +- 180,
\* simple_calculate returns stable = true with the fixed 'all generators
\* stable' comment.  Stated for the series in which every tested generator has
\* a baseline; the engine and the monitoring reads do not fail.
C3_NoDivergenceIsStable ==
    ( /\ EvDone("simple")
      /\ evIn.fault = "none" /\ evIn.bad_cols = {}
      /\ AllTestedHaveBaseline(evIn)
      /\ \A k \in DOMAIN TestedIds(evIn) :
             LET data == evIn.tuple[TestedIds(evIn)[k]]
             IN \A i \in DOMAIN data : ~Diverges(data, i) )
    => ( /\ ~evOut[1].raised
         /\ evOut[1].stable
         /\ evOut[1].comment = AllStable )

\* C4: when the series of a tested generator holds a sample outside
\* baseline +- 180, simple_calculate returns stable = false and the timestamp in
\* the comment is that of the first such sample of the generator the comment
\* names.  Stated for the series in which every tested generator has a baseline.
C4_DivergenceIsUnstable ==
    ( /\ EvDone("simple")
      /\ evIn.fault = "none" /\ evIn.bad_cols = {}
      /\ AllTestedHaveBaseline(evIn)
      /\ \E k \in DOMAIN TestedIds(evIn) :
             LET data == evIn.tuple[TestedIds(evIn)[k]]
             IN \E i \in DOMAIN data : Diverges(data, i) )
    => ( /\ ~evOut[1].raised
         /\ ~evOut[1].stable
         /\ evOut[1].comment.kind = "angle"
         /\ \E k \in DOMAIN TestedIds(evIn) :
                LET g == TestedIds(evIn)[k]
                    data == evIn.tuple[g]
                IN /\ evOut[1].comment.gen = GenNameList[g]
                   /\ \E i \in DOMAIN data : Diverges(data, i)
                   /\ evOut[1].comment.t = Fmt3(data[FirstDivergence(data)].t) )

\* C5: whenever ems_calculate returns a verdict, stable is exactly
\* (terminal cause code = 0), for each of the cause codes 0..3 and whatever the
\* return code, the simulated time and the message.
C5_EmsStableIffCauseZero ==
    (EvDone("ems") /\ ~evOut[1].raised) => (evOut[1].stable <=> (evIn.cause = 0))

\* An ems verdict for a nonzero cause code with return code 0 and an engine message.
C5_Witness ==
    /\ EvDone("ems") /\ ~evOut[1].raised
    /\ evIn.cause = 3 /\ evIn.ret_code = 0 /\ evIn.message # "" /\ evIn.time_reached # 0
    /\ ~evOut[1].stable

\* Tested generator number k (in checking order) has a sample outside its
\* baseline +- 180.
DivergesAt(k) ==
    LET data == evIn.tuple[TestedIds(evIn)[k]]
    IN \E i \in DOMAIN data : Diverges(data, i)

\* The rows whose time series the call retrieved, in order.
SnapshotReads ==
    LET IsRead(e) == e.op = "GetChainedGraphSnapshot"
        reads == SelectSeq(calls, IsRead)
    IN [i \in DOMAIN reads |-> reads[i].row]

\* C19: simple_calculate returns unstable exactly when at least one tested
\* generator has a sample outside its baseline +- 180; the comment then names
\* the first such generator in checking order with the timestamp of its first
\* such sample, the series of the generators after it are not retrieved, and
\* only the tested generators are looked at.  Stated for the series in which
\* every tested generator has a baseline.
C19_AnyDivergenceShortCircuits ==
    ( /\ EvDone("simple")
      /\ evIn.fault = "none" /\ evIn.bad_cols = {}
      /\ AllTestedHaveBaseline(evIn) )
    => LET ids == TestedIds(evIn)
           last == IF \E k \in DOMAIN ids : DivergesAt(k)
                   THEN CHOOSE k \in DOMAIN ids :
                            DivergesAt(k) /\ \A j \in 1 .. (k - 1) : ~DivergesAt(j)
                   ELSE Len(ids)
       IN /\ ~evOut[1].raised
          /\ evOut[1].stable <=> ~(\E k \in DOMAIN ids : DivergesAt(k))
          /\ ~evOut[1].stable =>
                 LET data == evIn.tuple[ids[last]]
                 IN evOut[1].comment
                        = AngleExceeded(GenNameList[ids[last]], data[FirstDivergence(data)].t)
          /\ SnapshotReads = [k \in 1 .. last |-> VarOf(evIn.n).generators[ids[k]].row_id]

\* C20: the baseline against which a generator's samples are tested comes from
\* that generator's own series: no call tests the first sample of a generator
\* (one at t >= 0.1, which sets no baseline) against the base_val left by a
\* generator scanned before it.
C20_BaselineFromOwnSeries ==
    EvDone("simple") =>
        LET ids == TestedIds(evIn)
            var == VarOf(evIn.n)
        IN \A k \in DOMAIN ids :
               LET before == ScanGens(var, EngineOf(evIn), SubSeq(ids, 1, k - 1), 1, ScanStart)
                   data == evIn.tuple[ids[k]]
               IN ~( /\ evIn.fault = "none"
                     /\ ~before.raised /\ before.SyncLossCause = 0
                     /\ before.bound
                     /\ data # <<>> /\ data[1].t >= BaseTimeLimit )

\* The base_val against which sample i of the first tested generator is
\* tested by the scan of lines 142-151 (the scan of the samples up to i).
BaseUsed(data, i) == ScanSeries("", SubSeq(data, 1, i), 1, ScanStart)

\* C21: the baseline of a generator is the value of the sample with the
\* smallest timestamp among those with timestamp < 0.1, and that one value is
\* used in the +-180 test of every sample of the series.  Stated for the first
\* tested generator of a call, whose scan starts with no base_val bound.
C21_BaselineIsEarliestSample ==
    (EvDone("simple") /\ evIn.fault = "none" /\ RetCodeListed(evIn.ret_code))
    => LET data == evIn.tuple[TestedIds(evIn)[1]]
       IN \A i \in DOMAIN data :
              BaseUsed(data, i).bound => BaseUsed(data, i).base_val = BaselineOf(data)

\* Tested generator number k has no sample with timestamp < 0.1.
NoBaselineAt(k) == ~HasBaseline(evIn.tuple[TestedIds(evIn)[k]])

\* C22: when a tested generator has no sample with timestamp < 0.1,
\* simple_calculate still completes without raising, and an unstable verdict
\* never names that generator, at whatever position it is tested.
C22_NoBaselineIsStable ==
    ( /\ EvDone("simple")
      /\ evIn.fault = "none" /\ evIn.bad_cols = {} /\ RetCodeListed(evIn.ret_code)
      /\ \E k \in DOMAIN TestedIds(evIn) : NoBaselineAt(k) )
    => ( /\ ~evOut[1].raised
         /\ \A k \in DOMAIN TestedIds(evIn) :
                NoBaselineAt(k)
                    => evOut[1].comment.gen # GenNameList[TestedIds(evIn)[k]] )

\* The outcome of the same call when the engine returns the other one of the
\* return codes 0 and 1.
WithOtherRetCode ==
    LET other == [evIn EXCEPT !.ret_code = 1 - @]
    IN Returned(simple_calculate(VarOf(evIn.n), LowPowers(evIn.n), evIn.gen_ids_to_check,
                                 evIn.selected_params, EngineOf(other), InitP))

\* C23: two calls of simple_calculate that receive the same angle series and
\* the return codes 0 and 1 have the same outcome (stable flag and comment), so
\* that a non-zero return code alone never makes the verdict unstable.
C23_ReturnCodeNotAVerdict ==
    (EvDone("simple") /\ evIn.ret_code \in {0, 1})
    => /\ evOut[1].raised = WithOtherRetCode.raised
       /\ evOut[1].stable = WithOtherRetCode.stable
       /\ evOut[1].comment = WithOtherRetCode.comment

\* A stable verdict returned over a series of two samples although the
\* engine's return code was 1.
C23_Witness ==
    /\ EvDone("simple") /\ evIn.ret_code = 1 /\ ~evOut[1].raised
    /\ Len(evIn.tuple[1]) = 2
    /\ evOut[1].stable
    /\ evOut[1].comment = AllStable

\* What the engine holds for generator i of the evaluator's call in the
\* column of parameter kind k, after the setpoints were applied.
ExpectedParam(k, i) ==
    IF k = "power_p" THEN engP[i - 1] ELSE ColumnData[ParamColumn(k)][i - 1]

Unavailable(k) == ParamColumn(k) \in evIn.bad_cols

\* C13: for every requested set of kinds out of delta, voltage, power_p,
\* power_q and current, the parameters of a verdict have exactly the requested
\* kinds as keys (none when nothing was requested), and each value has one
\* entry per generator, in construction order.
C13_ParameterShape ==
    (evOut # <<>> /\ ~evOut[1].raised) =>
        LET par == evOut[1].parameters
            req == Range(evIn.selected_params)
        IN IF req = {} THEN par = <<>>
           ELSE /\ DOMAIN par = req
                /\ \A k \in req :
                       /\ Len(par[k]) = evIn.n
                       /\ ~Unavailable(k) =>
                              \A i \in 1 .. evIn.n : par[k][i] = ExpectedParam(k, i)

\* A verdict for two or more generators with all five kinds requested.
C13_Witness ==
    /\ evOut # <<>> /\ ~evOut[1].raised
    /\ evIn.n >= 2
    /\ Range(evIn.selected_params) = KnownParams
    /\ evIn.bad_cols = {}
    /\ evOut[1].parameters["voltage"][2] = 501
    /\ evOut[1].parameters["power_p"] = LowPowers(evIn.n)

\* C14: a requested kind whose column cannot be read is never an error: the
\* evaluator still returns a verdict, with 'N/A' for every generator under
\* that kind and the other kinds as usual.
C14_UnavailableIsPlaceholder ==
    (evOut # <<>> /\ evIn.fault = "none" /\ evIn.selected_params # <<>>
        /\ AllTestedHaveBaseline(evIn)) =>
        /\ ~evOut[1].raised
        /\ \A k \in Range(evIn.selected_params) :
               IF Unavailable(k)
               THEN evOut[1].parameters[k] = [i \in 1 .. evIn.n |-> "N/A"]
               ELSE evOut[1].parameters[k] = [i \in 1 .. evIn.n |-> ExpectedParam(k, i)]

\* C18: in every evaluation, of either strategy, apply writes the setpoint of
\* each generator to its row, in order, then commits exactly once, after the
\* last write, and the dynamic run is invoked only after that commit.
C18_ApplyThenCommit ==
    evOut # <<>> =>
        LET n == evIn.n
        IN /\ Len(calls) >= n + 2
           /\ \A i \in 1 .. n :
                  calls[i] = Call("SetZ", VarOf(n).generators[i].row_id, LowPowers(n)[i])
           /\ calls[n + 1].op = "rgm"
           /\ calls[n + 2].op = IF evIn.func = "ems" THEN "RunEMSmode" ELSE "Run"
           /\ Cardinality({i \in DOMAIN calls : calls[i].op = "rgm"}) = 1
           /\ Cardinality({i \in DOMAIN calls : calls[i].op = "SetZ"}) = n
           /\ Cardinality({i \in DOMAIN calls : IsRun(calls[i])}) = 1
           /\ \A i \in 1 .. n : engP[VarOf(n).generators[i].row_id] = LowPowers(n)[i]

\* An EMS evaluation over two or more generators.
C18_Witness ==
    /\ evOut # <<>> /\ evIn.n >= 2 /\ evIn.func = "ems"
    /\ calls[evIn.n + 1].op = "rgm"
    /\ calls[evIn.n + 2].op = "RunEMSmode"

-----------------------------------------------------------------------------
(* Properties of run_analysis (checked under Spec, caller 1) *)

Files == run[1].scenario_files
Report == run[1].results
Returned1 == run[1].pc = "returned"

PosIn(fs, name) == CHOOSE i \in DOMAIN fs : fs[i] = name

IsEngineCall(e) == e.op \notin {"progress", "LoadError"}
IsProgress(e) == e.op = "progress"
ProgressIdx == {p \in DOMAIN calls : IsProgress(calls[p])}

EventsOf(name) == {i \in DOMAIN calls : calls[i].scen = name}
LoadFailed(name) == \E i \in EventsOf(name) : calls[i].op = "LoadError"
LoadSucceeded(name) == \E i \in EventsOf(name) : calls[i].op = "SnapMaxCount"
RunsOf(name) == {i \in EventsOf(name) : IsRun(calls[i])}

HasKey(d, name) == \E i \in DOMAIN d : d[i].key = name
ValueOf(d, name) == d[PosIn(DictKeys(d), name)].value

\* C1: in the returned report every scenario whose load raised still has a key,
\* with an empty result list, and every scenario after it is still loaded.
C1_LoadFailureKeepsEmptySlot ==
    Returned1 =>
        \A k \in DOMAIN Files :
            LoadFailed(Files[k]) =>
                /\ HasKey(Report, Files[k])
                /\ ValueOf(Report, Files[k]) = <<>>
                /\ \A j \in (k + 1) .. Len(Files) :
                       \E i \in EventsOf(Files[j]) : calls[i].op = "Load"

\* The setpoints written for generator g of the run, in the order of the writes
\* made for scenario `name`.
RECURSIVE KeepIn(_, _)
KeepIn(seq, keep) ==
    IF seq = <<>> THEN <<>>
    ELSE IF Head(seq) \in keep THEN <<Head(seq)>> \o KeepIn(Tail(seq), keep)
    ELSE KeepIn(Tail(seq), keep)

WritesOf(name, row) ==
    LET idx == KeepIn([i \in DOMAIN calls |-> i],
                         {i \in EventsOf(name) : calls[i].op = "SetZ" /\ calls[i].row = row})
    IN [j \in DOMAIN idx |-> calls[idx[j]].v]

\* C2: every scenario stored in the report has exactly 3 entries, low, high,
\* mid, with powers[i] = min, max and (min+max)/2 of generator i (powers are in
\* units of 0.5 MW); a returned report holds every scenario that loaded; and
\* the evaluator ran exactly once per entry, on those setpoints in that order.
C2_ThreeEntriesLowHighMid ==
    /\ \A e \in DOMAIN Report :
           LET list == Report[e].value
               pr == run[1].power_ranges
           IN /\ Len(list) = 3
              /\ \A i \in DOMAIN pr :
                     /\ list[1].powers[i] = 2 * pr[i][1]
                     /\ list[2].powers[i] = 2 * pr[i][2]
                     /\ list[3].powers[i] = pr[i][1] + pr[i][2]
              /\ \A c \in 1 .. 3 : Len(list[c].powers) = Len(pr)
              /\ Cardinality(RunsOf(Report[e].key)) = 3
              /\ \A i \in DOMAIN pr :
                     WritesOf(Report[e].key, run[1].var.generators[i].row_id)
                         = <<2 * pr[i][1], 2 * pr[i][2], pr[i][1] + pr[i][2]>>
    /\ Returned1 => \A k \in DOMAIN Files : LoadSucceeded(Files[k]) => HasKey(Report, Files[k])

\* A returned report with a swept scenario whose midpoint is not a whole number
\* of MW, after an earlier scenario was skipped.
C2_Witness ==
    /\ Returned1
    /\ Len(Report) = 1 /\ Len(Files) = 2 /\ Report[1].key = Files[2]
    /\ run[1].power_ranges = <<<<1, 2>>>>
    /\ Report[1].value[3].powers = <<3>>

\* C7: the events of the trace are grouped by scenario in the order of
\* scenario_files (no event of a scenario after the first event of a later
\* one), and the keys of the report come in the order in which their scenarios
\* were processed.
C7_ScenariosInOrder ==
    /\ \A j \in 2 .. Len(calls) :
           calls[j].scen # "" =>
               IF calls[j - 1].scen # ""
               THEN calls[j - 1].scen = calls[j].scen
                    \/ PosIn(Files, calls[j - 1].scen) < PosIn(Files, calls[j].scen)
               ELSE \A i \in 1 .. (j - 1) :
                        calls[i].scen # ""
                            => PosIn(Files, calls[i].scen) <= PosIn(Files, calls[j].scen)
    /\ \A i, j \in DOMAIN Report :
           i < j => PosIn(Files, Report[i].key) < PosIn(Files, Report[j].key)

\* A returned report with two swept scenarios given in non-alphabetical order.
C7_Witness ==
    /\ Returned1
    /\ Files = <<"b.scn", "a.scn">>
    /\ DictKeys(Report) = <<"b.scn", "a.scn">>

\* C8 as stated: every progress callback delivered for a scenario comes after
\* that scenario's three evaluations.
C8_ProgressOnlyAfterSweep ==
    \A p \in ProgressIdx :
        calls[p].scen # "" => Cardinality({i \in RunsOf(calls[p].scen) : i < p}) = 3

\* C8 amended: a scenario's 'processing' callback precedes every engine call
\* made for it, its 'completed' callback follows all of them and follows
\* exactly three evaluations, no callback lies between two engine calls of one
\* scenario, and the callbacks come in the order of scenario_files.
C8_ProgressAroundSweep ==
    /\ \A p \in ProgressIdx :
           /\ calls[p].msg = "processing" =>
                  \A i \in EventsOf(calls[p].scen) : IsEngineCall(calls[i]) => p < i
           /\ calls[p].msg = "completed" =>
                  /\ \A i \in EventsOf(calls[p].scen) : IsEngineCall(calls[i]) => i < p
                  /\ Cardinality(RunsOf(calls[p].scen)) = 3
           /\ calls[p].msg = "finished" => p = Len(calls)
           /\ {calls[i].scen : i \in {i \in 1 .. (p - 1) : IsEngineCall(calls[i])}}
                  \cap {calls[j].scen : j \in {j \in (p + 1) .. Len(calls) : IsEngineCall(calls[j])}}
                  = {}
    /\ \A p, q \in ProgressIdx :
           (p < q /\ calls[p].scen # "" /\ calls[q].scen # "")
               => PosIn(Files, calls[p].scen) <= PosIn(Files, calls[q].scen)

\* A returned run with a callback in which two scenarios were swept.
C8_Witness ==
    /\ Returned1
    /\ Len(Report) = 2
    /\ Cardinality({p \in DOMAIN calls : IsProgress(calls[p]) /\ calls[p].msg = "completed"}) = 2
    /\ Cardinality({p \in DOMAIN calls : IsProgress(calls[p]) /\ calls[p].msg = "processing"}) = 2

CompletedUpTo(p) == Cardinality({q \in ProgressIdx : q <= p /\ calls[q].msg = "completed"})

\* C9 as stated: whatever the caller passed as callback, a returned run has
\* ended with a completion signal carrying 100, and each 'completed' signal
\* carries completed / total * 100.
C9_FinalSignalAlways ==
    /\ \A p \in ProgressIdx :
           calls[p].msg = "completed" =>
               calls[p].num * Len(Files) = 100 * CompletedUpTo(p) * calls[p].den
    /\ Returned1 =>
           /\ calls # <<>>
           /\ IsProgress(calls[Len(calls)])
           /\ calls[Len(calls)].msg = "finished"
           /\ calls[Len(calls)].num = 100 * calls[Len(calls)].den

\* C9 amended: with a progress callback, each 'completed' signal carries
\* (number of scenarios swept so far) / total * 100 and a returned run has ended
\* with the 'finished' signal carrying exactly 100, also when scenarios were
\* skipped; without a callback, nothing is emitted.
C9_FinalSignalWithCallback ==
    /\ \A p \in ProgressIdx :
           calls[p].msg = "completed" =>
               calls[p].num * Len(Files) = 100 * CompletedUpTo(p) * calls[p].den
    /\ (Returned1 /\ run[1].progress_callback # "none") =>
           /\ calls # <<>>
           /\ IsProgress(calls[Len(calls)])
           /\ calls[Len(calls)].msg = "finished"
           /\ calls[Len(calls)].num = 100 * calls[Len(calls)].den
    /\ run[1].progress_callback = "none" => ProgressIdx = {}

\* A returned run with a callback in which the first scenario was swept and the
\* second skipped: the last 'completed' signal carried 50, the final one 100.
C9_Witness ==
    /\ Returned1
    /\ run[1].progress_callback # "none"
    /\ Len(Files) = 2 /\ Len(Report) = 1
    /\ LoadFailed(Files[2])
    /\ \E p \in ProgressIdx : calls[p].msg = "completed" /\ calls[p].num = 50 * calls[p].den
    /\ calls[Len(calls)].msg = "finished"

\* The run of caller 1 ended in its connection attempt.
ConnectFailed == run[1].pc = "raised" /\ run[1].k = 0

\* C10: a run whose connection attempt fails raises without any load,
\* evaluation or progress callback and without a report, after a single
\* connection attempt; a run is past its connection step only with a session.
C10_ConnectFailureIsFatal ==
    /\ ConnectFailed =>
           /\ \A i \in DOMAIN calls : calls[i].op \in {"Dispatch", "FWDynamic"}
           /\ Cardinality({i \in DOMAIN calls : calls[i].op = "Dispatch"}) = 1
           /\ Report = <<>>
    /\ run[1].pc \in {"scenario", "eval", "running", "returned"} => rastr = "Rastr"

\* A run that raised because the engine object could not be created.
C10_Witness ==
    /\ ConnectFailed
    /\ rastr = "None"
    /\ run[1].scenario_files # <<>>
    /\ calls = <<Event("Dispatch", -1, 0, 1, "", 0, 1)>>

-----------------------------------------------------------------------------
(* Session lifecycle (Spec) *)

\* C27: a run that failed to connect, at the creation of the engine object or
\* at the request for its dynamics object, leaves the analyzer without a
\* session, and no run gets past the connection step while the analyzer holds
\* an engine object without its dynamics object.
C27_NoHalfOpenSession ==
    /\ ConnectFailed => (rastr = "None" /\ dyn = "None")
    /\ run[1].pc \in {"scenario", "eval", "running", "returned"} => dyn # "None"

\* The progress callbacks of the run so far, in order.
ProgressSeq == SelectSeq(calls, IsProgress)

\* Scenario f was dealt with by position p of the trace: its load failed, or
\* its sweep ended, its results were stored and its 'completed' callback was
\* made (the callback at p itself included).
DealtWithBy(f, p) ==
    \E i \in 1 .. p :
        /\ calls[i].scen = f
        /\ calls[i].op = "LoadError" \/ (IsProgress(calls[i]) /\ calls[i].msg = "completed")

\* C28: within one run, whatever loads fail, the percentages passed to the
\* progress callback never decrease, each lies in 0 .. 100, and 100 is passed
\* only when every scenario of the run was processed or skipped.
C28_ProgressMonotone ==
    run[1].pc # "idle" =>
        /\ \A i \in 1 .. (Len(ProgressSeq) - 1) :
               ProgressSeq[i].num * ProgressSeq[i + 1].den
                   <= ProgressSeq[i + 1].num * ProgressSeq[i].den
        /\ \A p \in ProgressIdx :
               /\ 0 <= calls[p].num /\ calls[p].num <= 100 * calls[p].den
               /\ calls[p].num = 100 * calls[p].den
                      => \A k \in DOMAIN Files : DealtWithBy(Files[k], p)

\* A returned run over two scenarios, the first skipped for a failed load and
\* the second swept: its callbacks carried 0, 0, 50 and 100.
C28_Witness ==
    /\ Returned1 /\ Len(Files) = 2
    /\ LoadFailed(Files[1]) /\ LoadSucceeded(Files[2])
    /\ Len(ProgressSeq) = 4
    /\ ProgressSeq[3].num * 2 = ProgressSeq[3].den * 100
    /\ ProgressSeq[4].num = 100 * ProgressSeq[4].den

DispatchCount(tr) == Cardinality({i \in DOMAIN tr : tr[i].op = "Dispatch"})
HasLoad(tr) == \E i \in DOMAIN tr : tr[i].op = "Load"

\* C11: over any sequence of runs on one analyzer the session is created
\* lazily, by the first run and before any Load; once created it is never
\* created again: no later step makes another Dispatch or replaces rastr, and
\* every Load of every later scenario and run is made on that session.
C11_SessionCreatedOnceLazily ==
    [][/\ rastr # "None" => /\ rastr' = rastr
                            /\ DispatchCount(calls') <= DispatchCount(calls)
       /\ dyn # "None" => dyn' = dyn
       /\ rastr' = "None" => ~HasLoad(calls')
       /\ \A i \in DOMAIN calls' :
              calls'[i].op = "Load" =>
                  \A j \in DOMAIN calls' : calls'[j].op = "Dispatch" => j < i]_vars

\* A later run on a connected analyzer: it has loaded a scenario and its trace
\* holds no Dispatch.
C11_Witness ==
    /\ rastr = "Rastr"
    /\ HasLoad(calls)
    /\ DispatchCount(calls) = 0

-----------------------------------------------------------------------------
(* Generator resolution (Spec) *)

Unresolved(e) == e.op = "FindNextSel" /\ e.row = -1

\* C12: when a descriptor's key matches no row, construction fails at once: no
\* setpoint is ever written to the unresolved row handle and no evaluation is
\* run after an unresolved selection.
C12_UnresolvedRowNeverUsed ==
    /\ \A j \in DOMAIN calls : calls[j].op = "SetZ" => calls[j].row # -1
    /\ \A i \in DOMAIN calls :
           Unresolved(calls[i]) => \A j \in (i + 1) .. Len(calls) : ~IsRun(calls[j])

-----------------------------------------------------------------------------
(* Per-scenario engine protocol (Spec) *)

\* The engine calls made for scenario f, in order (with the marker of a
\* failed load).
CallsFor(f) ==
    LET Mine(e) == e.scen = f /\ e.op # "progress"
    IN SelectSeq(calls, Mine)

\* C17: for every scenario the engine calls are Load(network file),
\* Load(scenario file), Load(automation file), one row selection per generator,
\* the snapshot setting, and only then evaluations, at most three; when one of
\* the loads fails, it is the last engine call made for that scenario.
C17_ScenarioProtocol ==
    \A k \in DOMAIN Files :
        LET E == CallsFor(Files[k])
            n == Len(run[1].generators_config)
        IN /\ \A i \in DOMAIN E :
                  IF E[i].op = "LoadError" THEN i > 1 /\ i <= 4 /\ i = Len(E)
                  ELSE IF i <= 3 THEN E[i].op = "Load" /\ E[i].v = i
                  ELSE IF i <= 3 + n THEN E[i].op = "FindNextSel"
                  ELSE IF i = 4 + n THEN E[i].op = "SnapMaxCount"
                  ELSE E[i].op \notin {"Load", "FindNextSel", "SnapMaxCount"}
           /\ Cardinality({i \in DOMAIN E : IsRun(E[i])}) <= 3

\* A run in which the scenario file of one scenario failed to load, after its
\* network file was loaded, and another scenario was swept in full.
C17_Witness ==
    /\ Returned1
    /\ \E k \in DOMAIN Files :
           LET E == CallsFor(Files[k])
           IN Len(E) = 3 /\ E[3].op = "LoadError" /\ E[2].op = "Load" /\ E[2].v = 2
    /\ \E k \in DOMAIN Files :
           Cardinality({i \in DOMAIN CallsFor(Files[k]) : IsRun(CallsFor(Files[k])[i])}) = 3

-----------------------------------------------------------------------------
(* Properties of one worker thread (SpecWorker) *)

\* run_analysis was left by an exception of the evaluation of a test vector.
EvalRaised == run[1].pc = "raised" /\ run[1].k >= 1

ErrorMessage == [type |-> "error", msg |-> "", scen |-> "", num |-> 0, den |-> 1, data |-> <<>>]

FinalSignalled ==
    \/ \E i \in ProgressIdx : calls[i].msg = "finished"
    \/ \E i \in DOMAIN queue : queue[i].type = "completed" \/ queue[i].msg = "finished"

\* C24: when the evaluation of test vector c of scenario S raises, c is the
\* last vector of S that was run and the exception is the last thing that
\* happened, no scenario after S was touched, no 'completed' signal for S and no
\* final signal was given, and the one thing the worker still does is to put a
\* single 'error' message, never 'completed'.
C24_EvaluationExceptionIsFatal ==
    /\ [](EvalRaised =>
            LET r == run[1]
                S == r.scenario_files[r.k]
            IN /\ Cardinality(RunsOf(S)) = r.c
               /\ calls[Len(calls)].scen = S /\ ~IsProgress(calls[Len(calls)])
               /\ \A j \in (r.k + 1) .. Len(r.scenario_files) :
                      EventsOf(r.scenario_files[j]) = {}
               /\ ~HasKey(r.results, S)
               /\ ~FinalSignalled)
    /\ [][EvalRaised => ( /\ run'[1].pc = "exited"
                          /\ calls' = calls
                          /\ queue' = Append(queue, ErrorMessage) )]_vars
    /\ [][run[1].pc = "exited" => queue' = queue]_vars

\* The worker has ended with an 'error' message after a run over two scenarios
\* in which the second test vector of the first scenario raised.
C24_Witness ==
    /\ run[1].pc = "exited"
    /\ queue # <<>> /\ queue[Len(queue)] = ErrorMessage
    /\ \E i \in ProgressIdx : calls[i].den = 2
    /\ \A i \in DOMAIN calls : calls[i].op # "LoadError"
    /\ Cardinality({i \in DOMAIN calls : IsRun(calls[i])}) = 2

-----------------------------------------------------------------------------
(* Properties of the front end's threads (SpecGui) *)

\* The evaluation of a test vector (apply + run + read-back) is in flight.
InFlight(w) == run[w].pc = "running"

\* C6: under every sequence of GUI actions, 'start analysis' pressed again
\* during a run included, at most one evaluation (apply + run + read-back) is
\* in flight against the shared engine session at any time.
C6_SingleEvaluationInFlight == Cardinality({w \in Workers : InFlight(w)}) <= 1

\* C25: while a run that ended successfully still has its 'completed' message
\* to put or to be dequeued, a check_progress call is pending, so that the
\* message is dequeued and display_results is called with the report.
C25_PollingUntilResultsShown ==
    ( \/ \E w \in Workers : run[w].pc = "returned"
      \/ \E i \in DOMAIN queue : queue[i].type = "completed" )
    => gui.timers > 0

\* C26: the check_progress call that handles the last message of the last
\* running worker, 'completed' or 'error', does not schedule itself again.
C26_PollingStopsAfterLastMessage ==
    [][ ( /\ queue # <<>> /\ queue' = <<>>
          /\ queue[Len(queue)].type \in {"completed", "error"}
          /\ \A w \in Workers : run[w].pc \in {"idle", "exited"} )
        => gui'.timers = gui.timers - 1 ]_vars

IsPrefix(a, b) == Len(a) <= Len(b) /\ \A i \in DOMAIN a : a[i] = b[i]

StopRequested == gui'.status_var.text = "stopping" /\ gui.status_var.text # "stopping"

\* C15: a stop request made during a run changes nothing of any thread, of
\* the engine or of the queue, and discards no report already displayed; an
\* evaluation in flight is ended only by its own completion (next test vector,
\* scenario done, or the evaluator's exception) and no step discards results
\* a running sweep has collected.
C15_StopNeverInterrupts ==
    [][/\ StopRequested =>
              /\ UNCHANGED <<run, engP, rastr, dyn, queue>>
              /\ gui'.current_results = gui.current_results
       /\ \A w \in Workers :
              /\ InFlight(w) =>
                     \/ run'[w] = run[w]
                     \/ /\ run'[w].pc \in {"eval", "scenario", "raised"}
                        /\ IsPrefix(run[w].scenario_results, run'[w].scenario_results)
              /\ run[w].pc \in {"eval", "running", "scenario"} =>
                     /\ run'[w].pc \notin {"idle", "exited", "spawned", "connect"}
                     /\ IsPrefix(run[w].results, run'[w].results)]_vars

\* A stop was requested while an evaluation is in flight in a sweep that has
\* already collected a result.
C15_Witness ==
    /\ gui.status_var.text = "stopping"
    /\ \E w \in Workers : InFlight(w) /\ Len(run[w].scenario_results) >= 1

-----------------------------------------------------------------------------
(* Properties of the generator list (SpecConfig) *)

\* C16: after any sequence of add, remove and clear actions every generator of
\* the list has p_min < p_max, so every power range handed to run_analysis has
\* min < max (an add attempt with p_min >= p_max being rejected).
C16_PowerRangeInvariant ==
    LET pr == power_ranges_of(gui.generators)
    IN \A i \in DOMAIN pr : FloatLT(pr[i][1], pr[i][2])

\* C29: after any sequence of add, remove and clear actions the rows of the
\* generator table and the entries of the generators list are the same
\* generators in the same order.
C29_TableAndListInStep ==
    /\ Len(gui.generators_tree) = Len(gui.generators)
    /\ \A i \in DOMAIN gui.generators : gui.generators_tree[i] = gui.generators[i]

-----------------------------------------------------------------------------
(* Properties of MultiVariable.apply (SpecApply) *)

\* The entry of the argument that stands for generator i: that of the list, the
\* value itself when the argument is not a list, None beyond the end of a list.
EntryFor(i) ==
    IF ~evIn.arg.is_list THEN evIn.arg.v
    ELSE IF i <= Len(evIn.arg.items) THEN evIn.arg.items[i]
    ELSE None

\* The generators apply wrote to, in order.
Written == SelectSeq([i \in 1 .. evIn.n |-> i], LAMBDA i : EntryFor(i) # None)

\* C30: apply writes the power of generator i with its entry exactly when the
\* vector has an entry for i that is not None; the setpoint of every other
\* generator is what it was; a value that is not a list is written to every
\* generator; and the commit is made once, after the writes, in all cases.
C30_ApplyFrame ==
    evOut # <<>> =>
        /\ \A i \in 1 .. evIn.n :
               engP[VarOf(evIn.n).generators[i].row_id]
                   = IF EntryFor(i) # None THEN EntryFor(i)[1]
                     ELSE evIn.P[VarOf(evIn.n).generators[i].row_id]
        /\ \A r \in Rows : r >= evIn.n => engP[r] = evIn.P[r]
        /\ calls = [k \in 1 .. Len(Written) |->
                       Call("SetZ", VarOf(evIn.n).generators[Written[k]].row_id,
                            EntryFor(Written[k])[1])]
                   \o <<Call("rgm", -1, 0)>>

\* apply was called on two generators with a list that holds None for the
\* first and a value for the second: only the second setpoint has changed.
C30_Witness ==
    /\ evOut # <<>>
    /\ evIn.n = 2
    /\ evIn.arg.is_list /\ evIn.arg.items = <<None, Some(200)>>
    /\ engP[0] = evIn.P[0] /\ engP[1] = 200 /\ evIn.P[1] # 200

====
